---- MODULE Spec2Model ----
(***************************************************************************)
(* Model of the Gest application shell: src/src/main.py (GestApplication   *)
(* and main) and the logging set-up it calls (src/src/utils/__init__.py).  *)
(* The collaborators (camera manager, detection engine, ...), Tk and the   *)
(* user are the environment: their outcomes are the inputs of the actions. *)
(***************************************************************************)
EXTENDS Integers, Sequences, FiniteSets, TLC

\* ------------------------------------------------------------------ bounds
\* how many times the user may ask the window manager to close the window
MaxClose == 3

\* how many calls of setup_logger / get_logger / GestLogger(...) are made
MaxCalls == 2

\* how many records the application emits besides those of _setup_logger
MaxEmits == 2

\* rotation threshold and retention count of the small configurations
\* passed to the logger, the threshold counted in records
SmallFileSize == 1

SmallBackupCount == 1

\* --------------------------------------------------------------- constants
\* the collaborators of GestApplication.__init__, in acquisition order
Collaborators ==
    << "camera_manager", "detection_engine", "feature_processor",
       "gesture_classifier", "action_executor" >>

NumCollaborators == Len(Collaborators)

\* the values the docstring of show_startup_dialog names
Modes == { "main", "trainer", "exit" }

VARIABLES
    pc,            \* position of main(): which step runs next
    next,          \* index of the collaborator __init__ acquires next
    acquired,      \* attributes bound on self by __init__, in order
    failedAt,      \* index of the acquisition that raised, 0 if none
    released,      \* release() calls made so far, in call order
    relRaised,     \* number of release() calls that raised
    log,           \* records emitted through self.logger, in order
    printed,       \* what main() printed to the terminal, in order
    root,          \* self.root: "none", "live" or "destroyed"
    destroyCount,  \* number of root.destroy() calls
    mode,          \* value returned by show_startup_dialog, "unset" before
    trainerStarted,\* run_trainer_mode was entered
    loopEntered,   \* root.mainloop() was entered
    closingCalls,  \* number of on_closing invocations
    closingDone,   \* number of on_closing invocations that ran to their end
    closeClicks,   \* WM_DELETE_WINDOW requests delivered so far
    reason,        \* why the run ended: "none", "Normal", "Fault", "Interrupted"
    exitCode,      \* process exit status, -1 while the process runs
    \* --- the logging module, src/src/utils/__init__.py
    instance,      \* _logger_instance is not None
    configured,    \* a GestLogger has been constructed
    config,        \* self.config of the GestLogger constructed last
    handlers,      \* the handlers installed on the loguru logger, in order
    stderr,        \* ids of the records written to sys.stderr, in order
    files,         \* the log files on disk: [name, mtime]
    clock,         \* current time: names new files and stamps writes
    emitted,       \* every record emitted so far: [id, sev, console]
    deletions,     \* files deleted by retention: [owner, by]
    constructs,    \* GestLogger objects built by setup_logger / get_logger
    lastCall,      \* the most recent call: [op, cfg]
    apiCalls,      \* number of setup_logger / get_logger / GestLogger calls
    emits          \* number of records emitted by the application

appVars == << pc, next, acquired, failedAt, released, relRaised, log, printed,
              root, destroyCount, mode, trainerStarted, loopEntered,
              closingCalls, closingDone, closeClicks, reason, exitCode >>

logVars == << instance, configured, config, handlers, stderr, files, clock,
              emitted, deletions, constructs, lastCall, apiCalls, emits >>

vars == << appVars, logVars >>

\* ----------------------------------------------------------------- helpers
Info(m) == [sev |-> "INFO", msg |-> m]

Error(m) == [sev |-> "ERROR", msg |-> m]

RECURSIVE Count(_, _)
Count(s, x) ==
    IF s = << >> THEN 0
    ELSE (IF Head(s) = x THEN 1 ELSE 0) + Count(Tail(s), x)

Range(s) == { s[i] : i \in DOMAIN s }

\* position of a collaborator in the acquisition order of __init__
Pos(c) == CHOOSE i \in DOMAIN Collaborators : Collaborators[i] = c

Reverse(s) == [ i \in DOMAIN s |-> s[Len(s) + 1 - i] ]

ErrorCount(lg) == Cardinality({ i \in DOMAIN lg : lg[i].sev = "ERROR" })

MsgCount(lg, m) == Cardinality({ i \in DOMAIN lg : lg[i].msg = m })

\* --------------------------------------------------------------- __init__
\* one "self.x = get_x()" line: the attribute is bound only if get_x returns
AcquireStepSwallow(acq, c, ok) ==
    [ acquired |-> Append(acq, c), raised |-> FALSE ]

AcquireStep(acq, c, ok) ==
    [ acquired |-> IF ok THEN Append(acq, c) ELSE acq, raised |-> ~ok ]

\* --------------------------------------------------------- main's handlers
\* except KeyboardInterrupt / except Exception / finally of main()
MainPrints(kind) ==
    IF kind = "KeyboardInterrupt" THEN << "interrupted", "terminated" >>
    ELSE IF kind = "Exception" THEN << "app_error", "traceback", "terminated" >>
    ELSE << "terminated" >>

\* exit status of the interpreter once main() is left: only sys.exit(1)
\* (SystemExit) leaves main() with an exception
ExitStatusAlwaysZero(kind) == 0

ExitStatus(kind) == IF kind = "SystemExit" THEN 1 ELSE 0

\* @handle_exceptions around run(): an Exception is logged and swallowed
HandleExceptions(lg, kind) ==
    IF kind = "Exception"
    THEN [ log |-> Append(lg, Error("handled_exception")), propagates |-> FALSE ]
    ELSE [ log |-> lg, propagates |-> (kind # "none") ]

\* -------------------------------------------------------------- on_closing
\* hasattr(self, name)
HasAttr(acq, c) == c \in Range(acq)

\* the collaborators on_closing releases, in the order it releases them
ClosingTargets == << "camera_manager", "detection_engine" >>

\* on_closing run on the state st = [released, relRaised, log, root,
\* destroyCount]; fails[i] says whether release() of ClosingTargets[i] raises.
\* raised is TRUE when an exception leaves on_closing.
RECURSIVE ReleaseFrom(_, _, _, _)
ReleaseFrom(i, acq, st, fails) ==
    IF i > Len(ClosingTargets) THEN [ st EXCEPT !.raised = FALSE ]
    ELSE IF ~HasAttr(acq, ClosingTargets[i])
         THEN ReleaseFrom(i + 1, acq, st, fails)
    ELSE IF fails[i]
         THEN [ st EXCEPT !.released = Append(@, ClosingTargets[i]),
                          !.relRaised = @ + 1,
                          !.raised = TRUE ]
    ELSE ReleaseFrom(i + 1, acq,
                     [ st EXCEPT !.released = Append(@, ClosingTargets[i]) ],
                     fails)

CloseGui(st) ==
    IF st.root = "none" THEN st
    ELSE IF st.root = "destroyed"
         THEN [ st EXCEPT !.destroyCount = @ + 1, !.raised = TRUE ]
    ELSE [ st EXCEPT !.root = "destroyed", !.destroyCount = @ + 1 ]

OnClosing(acq, st, fails) ==
    LET s1 == [ st EXCEPT !.log = Append(@, Info("closing")) ]
        s2 == ReleaseFrom(1, acq, s1, fails)
        s3 == IF s2.raised THEN s2 ELSE CloseGui(s2)
    IN  IF s3.raised THEN s3
        ELSE [ s3 EXCEPT !.log = Append(@, Info("closed")) ]

ClosingState ==
    [ released |-> released, relRaised |-> relRaised, log |-> log,
      root |-> root, destroyCount |-> destroyCount, raised |-> FALSE ]

\* ------------------------------------------------------------------- run()
\* the value result.get() returns for what the user did with the dialog
DialogResultEmptyDefault(choice) ==
    IF choice = "trainer_button" THEN "trainer"
    ELSE IF choice = "exit_button" THEN "exit"
    ELSE ""

DialogResult(choice) ==
    IF choice = "trainer_button" THEN "trainer" ELSE "exit"

\* the if / elif of run(): where control goes for a returned mode
RunBranchNoExit(m) ==
    IF m = "trainer" THEN "trainer" ELSE "eventloop"

RunBranch(m) ==
    IF m = "exit" THEN "closing"
    ELSE IF m = "trainer" THEN "trainer"
    ELSE "eventloop"

\* ------------------------------------------------- logging: configuration
\* "10MB" of _get_default_config, in bytes; the small configurations count
\* their threshold in records, and a write adds 1 to the size of a file
DefaultMaxFileSize == 10000000

DefaultBackupCount == 5

\* _get_default_config
DefaultConfig ==
    [ log_dir |-> "logs", max_file_size |-> DefaultMaxFileSize,
      backup_count |-> DefaultBackupCount, format |-> "default",
      level |-> "INFO" ]

\* the configurations a caller passes: small thresholds make rotation happen
SmallConfigs ==
    { [ log_dir |-> "logs", max_file_size |-> SmallFileSize,
        backup_count |-> SmallBackupCount, format |-> "plain",
        level |-> l ] : l \in { "DEBUG", "WARNING" } }

\* the argument of setup_logger / GestLogger: None or a dictionary
ConfigArgs ==
    { [ given |-> FALSE, cfg |-> DefaultConfig ] }
        \cup { [ given |-> TRUE, cfg |-> c ] : c \in SmallConfigs }

\* GestLogger.__init__: self.config = config or self._get_default_config()
EffectiveConfig(arg) == IF arg.given THEN arg.cfg ELSE DefaultConfig

\* severity numbers of loguru's levels
LevelNo(l) ==
    CASE l = "DEBUG" -> 10
      [] l = "INFO" -> 20
      [] l = "WARNING" -> 30
      [] l = "ERROR" -> 40

\* a handler lets a record through when its level is at least the handler's
PassesStrict(sev, level) == LevelNo(sev) > LevelNo(level)

Passes(sev, level) == LevelNo(sev) >= LevelNo(level)

\* ------------------------------------------------------ logging: file names
\* the path templates of the two file handlers, without the directory
Template(kind) ==
    IF kind = "all" THEN << "gest_", "{time}", ".log" >>
    ELSE << "gest_", "errors_", "{time}", ".log" >>

\* the template with {time} formatted: the name of a file created at time t
FormatPath(tpl, t) ==
    [ i \in DOMAIN tpl |-> IF tpl[i] = "{time}" THEN ToString(t) ELSE tpl[i] ]

\* the glob patterns retention selects files with: {time} becomes "*", and a
\* second pattern accepts one more extension (".zip")
GlobPatterns(tpl) ==
    LET star == [ i \in DOMAIN tpl |-> IF tpl[i] = "{time}" THEN "*" ELSE tpl[i] ]
    IN  { star, star \o << ".*" >> }

RECURSIVE GlobMatch(_, _)
GlobMatch(pat, name) ==
    IF pat = << >> THEN name = << >>
    ELSE IF Head(pat) = "*"
         THEN \E k \in 0 .. Len(name) :
                  GlobMatch(Tail(pat), SubSeq(name, k + 1, Len(name)))
    ELSE IF Head(pat) = ".*"
         THEN /\ name # << >>
              /\ Head(name) = ".zip"
              /\ GlobMatch(Tail(pat), Tail(name))
    ELSE /\ name # << >>
         /\ Head(name) = Head(pat)
         /\ GlobMatch(Tail(pat), Tail(name))

\* the file sink whose template a file name was formatted from
OwnerKind(name) == IF name[2] = "errors_" THEN "errors" ELSE "all"

FileNames(fs) == { f.name : f \in fs }

\* --------------------------------------------------- logging: the handlers
\* the handler loguru installs on sys.stderr when it is imported
DefaultHandler ==
    [ kind |-> "console", level |-> "DEBUG", path |-> << >>, size |-> 0,
      rotation |-> 0, retention |-> 0, from |-> 0, received |-> << >>,
      rotated |-> {} ]

\* the state the logging operations work on
LogState ==
    [ handlers |-> handlers, stderr |-> stderr, files |-> files,
      clock |-> clock, deletions |-> deletions ]

\* logger.remove(): every handler is stopped and dropped; files stay on disk
RemoveNothing(L) == L

Remove(L) == [ L EXCEPT !.handlers = << >> ]

\* logger.add(sys.stderr, level=...)
AddConsole(L, level, from) ==
    [ L EXCEPT !.handlers =
        Append(@, [ DefaultHandler EXCEPT !.level = level, !.from = from ]) ]

\* logger.add(log_dir / template, level=..., rotation=..., retention=...,
\* compression="zip"): the file is created when the handler is added
AddFile(L, kind, level, cfg, from) ==
    LET path == FormatPath(Template(kind), L.clock)
    IN  [ L EXCEPT
            !.handlers = Append(@,
                [ kind |-> kind, level |-> level, path |-> path, size |-> 0,
                  rotation |-> cfg.max_file_size,
                  retention |-> cfg.backup_count, from |-> from,
                  received |-> << >>, rotated |-> {} ]),
            !.files = @ \cup { [ name |-> path, mtime |-> L.clock ] },
            !.clock = @ + 1 ]

\* retention=<count>: of the files the handler's patterns match, the count
\* most recently modified ones are kept and the others deleted
RetentionVictims(fs, tpl, count) ==
    LET matched == { f \in fs : \E p \in GlobPatterns(tpl) : GlobMatch(p, f.name) }
    IN  { f \in matched :
            Cardinality({ g \in matched : g.mtime > f.mtime }) >= count }

\* rotation of file handler i: the current file is zipped, retention runs,
\* a new file is opened. If the current file is gone from the disk the zip
\* step raises: an empty archive is left and the handler has no file.
Rotate(L, i) ==
    LET h == L.handlers[i]
        zip == h.path \o << ".zip" >>
    IN  IF h.path \notin FileNames(L.files)
        THEN [ L EXCEPT
                 !.handlers[i].path = << >>,
                 !.handlers[i].size = 0,
                 !.files = @ \cup { [ name |-> zip, mtime |-> L.clock ] },
                 !.clock = @ + 1 ]
        ELSE LET zipped == { f \in L.files : f.name # h.path }
                               \cup { [ name |-> zip, mtime |-> L.clock ] }
                 victims == RetentionVictims(zipped, Template(h.kind),
                                             h.retention)
                 new == FormatPath(Template(h.kind), L.clock + 1)
             IN  [ L EXCEPT
                     !.handlers[i].path = new,
                     !.handlers[i].size = 0,
                     !.handlers[i].rotated = @ \cup { zip },
                     !.files = (zipped \ victims)
                                 \cup { [ name |-> new, mtime |-> L.clock + 1 ] },
                     !.deletions = @ \cup
                        { [ owner |-> OwnerKind(f.name), by |-> h.kind ]
                            : f \in victims },
                     !.clock = @ + 2 ]

\* the file file handler i writes to is opened if the handler has none
Reopen(L, i) ==
    IF L.handlers[i].path # << >> THEN L
    ELSE LET path == FormatPath(Template(L.handlers[i].kind), L.clock)
         IN  [ L EXCEPT
                 !.handlers[i].path = path,
                 !.files = @ \cup { [ name |-> path, mtime |-> L.clock ] },
                 !.clock = @ + 1 ]

\* FileSink.write of handler i: rotate first when the record does not fit,
\* then append the record (to an unlinked file the append leaves no trace)
FileWrite(L, i) ==
    LET L1 == Reopen(L, i)
        L2 == IF L1.handlers[i].size + 1 > L1.handlers[i].rotation
              THEN Rotate(L1, i) ELSE L1
        h == L2.handlers[i]
    IN  IF h.path = << >> THEN L2
        ELSE [ L2 EXCEPT
                 !.handlers[i].size = @ + 1,
                 !.files = { IF f.name = h.path
                             THEN [ f EXCEPT !.mtime = L2.clock ] ELSE f
                             : f \in @ },
                 !.clock = @ + 1 ]

\* one record is handed to the handlers from the i-th on, in their order
RECURSIVE EmitFrom(_, _, _)
EmitFrom(i, L, rec) ==
    IF i > Len(L.handlers) THEN L
    ELSE LET h == L.handlers[i]
         IN  IF ~Passes(rec.sev, h.level) THEN EmitFrom(i + 1, L, rec)
             ELSE LET L1 == [ L EXCEPT !.handlers[i].received = Append(@, rec.id) ]
                      L2 == IF h.kind = "console"
                            THEN [ L1 EXCEPT !.stderr = Append(@, rec.id) ]
                            ELSE FileWrite(L1, i)
                  IN  EmitFrom(i + 1, L2, rec)

\* GestLogger._setup_logger without its last line: the three handlers
SetupHandlers(L, cfg, from) ==
    LET L0 == Remove(L)
        L1 == AddConsole(L0, cfg.level, from)
        L2 == AddFile(L1, "all", "DEBUG", cfg, from)
    IN  AddFile(L2, "errors", "ERROR", cfg, from)

\* -------------------------------------------------------------------- Init
Init ==
    /\ pc = "start"
    /\ next = 1
    /\ acquired = << >>
    /\ failedAt = 0
    /\ released = << >>
    /\ relRaised = 0
    /\ log = << >>
    /\ printed = << >>
    /\ root = "none"
    /\ destroyCount = 0
    /\ mode = "unset"
    /\ trainerStarted = FALSE
    /\ loopEntered = FALSE
    /\ closingCalls = 0
    /\ closingDone = 0
    /\ closeClicks = 0
    /\ reason = "none"
    /\ exitCode = -1
    /\ instance = FALSE
    /\ configured = FALSE
    /\ config = DefaultConfig
    /\ handlers = << DefaultHandler >>
    /\ stderr = << >>
    /\ files = {}
    /\ clock = 1
    /\ emitted = << >>
    /\ deletions = {}
    /\ constructs = 0
    /\ lastCall = [ op |-> "none", cfg |-> DefaultConfig ]
    /\ apiCalls = 0
    /\ emits = 0

\* main() is left: kind is the exception that reached it ("none" if run()
\* returned), why is the shutdown reason
Terminate(kind, why) ==
    /\ pc' = "terminated"
    /\ printed' = printed \o MainPrints(kind)
    /\ exitCode' = ExitStatus(kind)
    /\ reason' = why

\* ----------------------------------------------------------------- actions
\* __init__, lines 39-41: setup_logger() (GestLogger._setup_logger logs its
\* own record) and the first record of the application
SetupLogging ==
    /\ pc = "start"
    /\ log' = log \o << Info("logger_init"), Info("starting") >>
    /\ pc' = "config"
    /\ UNCHANGED << next, acquired, failedAt, released, relRaised, printed,
                    root, destroyCount, mode, trainerStarted, loopEntered,
                    closingCalls, closingDone, closeClicks, reason, exitCode >>
    /\ UNCHANGED logVars

\* __init__, lines 43-50: load the configuration or sys.exit(1)
LoadConfig(ok) ==
    /\ pc = "config"
    /\ IF ok
       THEN /\ log' = Append(log, Info("config_loaded"))
            /\ pc' = "acquire"
            /\ UNCHANGED << printed, exitCode, reason >>
       ELSE /\ log' = Append(log, Error("config_failed"))
            /\ Terminate("SystemExit", "Fault")
    /\ UNCHANGED << next, acquired, failedAt, released, relRaised, root,
                    destroyCount, mode, trainerStarted, loopEntered,
                    closingCalls, closingDone, closeClicks >>
    /\ UNCHANGED logVars

\* __init__, lines 52-64: one collaborator is acquired; an exception of its
\* factory leaves __init__ and reaches "except Exception" of main()
Acquire(ok) ==
    /\ pc = "acquire"
    /\ LET c == Collaborators[next]
           r == AcquireStep(acquired, c, ok)
       IN  /\ acquired' = r.acquired
           /\ failedAt' = IF ~ok /\ failedAt = 0 THEN next ELSE failedAt
           /\ IF r.raised
              THEN /\ Terminate("Exception", "Fault")
                   /\ UNCHANGED << next, log >>
              ELSE /\ next' = next + 1
                   /\ IF next = NumCollaborators
                      THEN /\ pc' = "run"
                           /\ log' = Append(log, Info("initialized"))
                      ELSE /\ pc' = "acquire"
                           /\ UNCHANGED log
                   /\ UNCHANGED << printed, exitCode, reason >>
    /\ UNCHANGED << released, relRaised, root, destroyCount, mode,
                    trainerStarted, loopEntered, closingCalls, closingDone,
                    closeClicks >>
    /\ UNCHANGED logVars

\* run(), line 186
RunStart ==
    /\ pc = "run"
    /\ log' = Append(log, Info("run_starting"))
    /\ pc' = "window"
    /\ UNCHANGED << next, acquired, failedAt, released, relRaised, printed,
                    root, destroyCount, mode, trainerStarted, loopEntered,
                    closingCalls, closingDone, closeClicks, reason, exitCode >>
    /\ UNCHANGED logVars

\* an exception kind raised inside run() at a point where on_closing has not
\* been called: @handle_exceptions sees it first, main() after it
RunRaises(kind) ==
    LET h == HandleExceptions(log, kind)
    IN  /\ log' = h.log
        /\ Terminate(IF h.propagates THEN kind ELSE "none",
                     IF kind = "KeyboardInterrupt" THEN "Interrupted"
                     ELSE "Fault")

\* run(), line 189: create_main_window. stage is where it stops: "tk" (tk.Tk()
\* raises), "style" (a later line raises) or "ok"
CreateMainWindow(stage) ==
    /\ pc = "window"
    /\ root' = IF stage = "tk" THEN "none" ELSE "live"
    /\ IF stage = "ok"
       THEN /\ log' = Append(log, Info("window_created"))
            /\ pc' = "dialog"
            /\ UNCHANGED << printed, exitCode, reason >>
       ELSE RunRaises("Exception")
    /\ UNCHANGED << next, acquired, failedAt, released, relRaised,
                    destroyCount, mode, trainerStarted, loopEntered,
                    closingCalls, closingDone, closeClicks >>
    /\ UNCHANGED logVars

\* run(), lines 192-198: show_startup_dialog and the branch on its result
ShowStartupDialog(choice) ==
    /\ pc = "dialog"
    /\ IF choice = "raise"
       THEN /\ RunRaises("Exception")
            /\ UNCHANGED mode
       ELSE IF choice = "interrupt"
       THEN /\ RunRaises("KeyboardInterrupt")
            /\ UNCHANGED mode
       ELSE /\ mode' = DialogResult(choice)
            /\ pc' = RunBranch(mode')
            /\ UNCHANGED << log, printed, exitCode, reason >>
    /\ UNCHANGED << next, acquired, failedAt, released, relRaised, root,
                    destroyCount, trainerStarted, loopEntered, closingCalls,
                    closingDone, closeClicks >>
    /\ UNCHANGED logVars

\* run(), lines 194-196: mode == "exit": on_closing, then return
ExitBranch(fails) ==
    /\ pc = "closing"
    /\ LET c == OnClosing(acquired, ClosingState, fails)
           h == HandleExceptions(c.log, IF c.raised THEN "Exception" ELSE "none")
       IN  /\ released' = c.released
           /\ relRaised' = c.relRaised
           /\ root' = c.root
           /\ destroyCount' = c.destroyCount
           /\ closingCalls' = closingCalls + 1
           /\ closingDone' = IF c.raised THEN closingDone ELSE closingDone + 1
           /\ log' = h.log
           /\ Terminate("none", IF c.raised THEN "Fault" ELSE "Normal")
    /\ UNCHANGED << next, acquired, failedAt, mode, trainerStarted,
                    loopEntered, closeClicks >>
    /\ UNCHANGED logVars

\* run(), lines 197-198: run_trainer_mode catches its own exceptions
RunTrainerMode(ok) ==
    /\ pc = "trainer"
    /\ trainerStarted' = TRUE
    /\ log' = Append(log, IF ok THEN Info("trainer_started")
                          ELSE Error("trainer_error"))
    /\ pc' = "eventloop"
    /\ UNCHANGED << next, acquired, failedAt, released, relRaised, printed,
                    root, destroyCount, mode, loopEntered, closingCalls,
                    closingDone, closeClicks, reason, exitCode >>
    /\ UNCHANGED logVars

\* run(), lines 200-202: the event loop is entered
StartEventLoop ==
    /\ pc = "eventloop"
    /\ log' = Append(log, Info("event_loop"))
    /\ loopEntered' = TRUE
    /\ pc' = "mainloop"
    /\ UNCHANGED << next, acquired, failedAt, released, relRaised, printed,
                    root, destroyCount, mode, trainerStarted, closingCalls,
                    closingDone, closeClicks, reason, exitCode >>
    /\ UNCHANGED logVars

\* WM_DELETE_WINDOW during mainloop(): on_closing runs as a Tk callback. An
\* exception of a callback is reported by Tk and the loop goes on; after
\* root.destroy() the loop ends and run() returns.
WmDeleteWindow(fails) ==
    /\ pc = "mainloop"
    /\ closeClicks < MaxClose
    /\ closeClicks' = closeClicks + 1
    /\ LET c == OnClosing(acquired, ClosingState, fails)
       IN  /\ released' = c.released
           /\ relRaised' = c.relRaised
           /\ root' = c.root
           /\ destroyCount' = c.destroyCount
           /\ log' = c.log
           /\ closingCalls' = closingCalls + 1
           /\ IF c.raised
              THEN /\ closingDone' = closingDone
                   /\ printed' = Append(printed, "tk_callback_traceback")
                   /\ UNCHANGED << pc, exitCode, reason >>
              ELSE /\ closingDone' = closingDone + 1
                   /\ Terminate("none", "Normal")
    /\ UNCHANGED << next, acquired, failedAt, mode, trainerStarted,
                    loopEntered >>
    /\ UNCHANGED logVars

\* mainloop() itself raises: an Exception or a KeyboardInterrupt (Ctrl-C)
MainloopRaises(kind) ==
    /\ pc = "mainloop"
    /\ RunRaises(kind)
    /\ UNCHANGED << next, acquired, failedAt, released, relRaised, root,
                    destroyCount, mode, trainerStarted, loopEntered,
                    closingCalls, closingDone, closeClicks >>
    /\ UNCHANGED logVars

Fails == [ DOMAIN ClosingTargets -> BOOLEAN ]

Next ==
    \/ SetupLogging
    \/ \E ok \in BOOLEAN : LoadConfig(ok)
    \/ \E ok \in BOOLEAN : Acquire(ok)
    \/ RunStart
    \/ \E stage \in { "tk", "style", "ok" } : CreateMainWindow(stage)
    \/ \E choice \in { "trainer_button", "exit_button", "dismiss",
                       "raise", "interrupt" } : ShowStartupDialog(choice)
    \/ \E fails \in Fails : ExitBranch(fails)
    \/ \E ok \in BOOLEAN : RunTrainerMode(ok)
    \/ StartEventLoop
    \/ \E fails \in Fails : WmDeleteWindow(fails)
    \/ \E kind \in { "Exception", "KeyboardInterrupt" } : MainloopRaises(kind)

Spec == Init /\ [][Next]_vars

\* -------------------------------------------------------- logging: actions
\* GestLogger(arg): __init__ and _setup_logger, whose last line emits
\* "Logger initialized successfully"
ConstructGestLogger(arg) ==
    LET cfg == EffectiveConfig(arg)
        rec == [ id |-> Len(emitted) + 1, sev |-> "INFO", console |-> cfg.level ]
        L == EmitFrom(1, SetupHandlers(LogState, cfg, Len(emitted)), rec)
    IN  /\ config' = cfg
        /\ configured' = TRUE
        /\ emitted' = Append(emitted, rec)
        /\ handlers' = L.handlers
        /\ stderr' = L.stderr
        /\ files' = L.files
        /\ clock' = L.clock
        /\ deletions' = L.deletions

\* setup_logger(arg): a GestLogger is built only while _logger_instance is None
SetupLogger(arg) ==
    IF ~instance
    THEN /\ ConstructGestLogger(arg)
         /\ instance' = TRUE
         /\ constructs' = constructs + 1
    ELSE UNCHANGED << config, configured, emitted, handlers, stderr, files,
                      clock, deletions, instance, constructs >>

SetupLoggerCall(arg) ==
    /\ apiCalls < MaxCalls
    /\ apiCalls' = apiCalls + 1
    /\ SetupLogger(arg)
    /\ lastCall' = [ op |-> "setup_logger", cfg |-> EffectiveConfig(arg) ]
    /\ UNCHANGED emits
    /\ UNCHANGED appVars

\* get_logger(): setup_logger() without a configuration when there is no
\* instance yet
GetLoggerCall ==
    /\ apiCalls < MaxCalls
    /\ apiCalls' = apiCalls + 1
    /\ SetupLogger([ given |-> FALSE, cfg |-> DefaultConfig ])
    /\ lastCall' = [ op |-> "get_logger", cfg |-> DefaultConfig ]
    /\ UNCHANGED emits
    /\ UNCHANGED appVars

\* GestLogger(arg) constructed directly by a caller
NewGestLogger(arg) ==
    /\ apiCalls < MaxCalls
    /\ apiCalls' = apiCalls + 1
    /\ ConstructGestLogger(arg)
    /\ lastCall' = [ op |-> "GestLogger", cfg |-> EffectiveConfig(arg) ]
    /\ UNCHANGED << instance, constructs, emits >>
    /\ UNCHANGED appVars

\* a record of severity sev is emitted on the shared logger
EmitRecord(sev) ==
    /\ emits < MaxEmits
    /\ emits' = emits + 1
    /\ LET rec == [ id |-> Len(emitted) + 1, sev |-> sev,
                    console |-> IF configured THEN config.level ELSE "DEBUG" ]
           L == EmitFrom(1, LogState, rec)
       IN  /\ emitted' = Append(emitted, rec)
           /\ handlers' = L.handlers
           /\ stderr' = L.stderr
           /\ files' = L.files
           /\ clock' = L.clock
           /\ deletions' = L.deletions
    /\ UNCHANGED << instance, configured, config, constructs, lastCall,
                    apiCalls >>
    /\ UNCHANGED appVars

Severities == { "DEBUG", "INFO", "ERROR" }

LogNext ==
    \/ \E arg \in ConfigArgs : SetupLoggerCall(arg)
    \/ GetLoggerCall
    \/ \E arg \in ConfigArgs : NewGestLogger(arg)
    \/ \E sev \in Severities : EmitRecord(sev)

LogSpec == Init /\ [][LogNext]_vars

\* ------------------------------------------------------------ properties
\* the collaborators whose acquisition step in __init__ returned normally
Succeeded ==
    { Collaborators[i] : i \in { j \in 1 .. (next - 1) : j # failedAt } }

Terminated == pc = "terminated"

\* C1: whenever teardown has run, the release() calls made so far are in the
\* reverse of the acquisition order: a collaborator acquired later is
\* released earlier.
C1_ReleaseInReverseOrder ==
    closingCalls >= 1 =>
        \A i, j \in DOMAIN released :
            i < j => Pos(released[i]) > Pos(released[j])

\* C2: once on_closing has completed, release() has been invoked exactly once
\* on each acquired collaborator and exactly Len(acquired) times in total.
C2_EveryAcquiredReleasedOnce ==
    closingDone >= 1 =>
        /\ Len(released) = Len(acquired)
        /\ \A c \in Range(acquired) : Count(released, c) = 1

\* C3: the process terminates with collaborators acquired only after a
\* teardown pass has completed, and never with some of the acquired
\* collaborators released and others not.
C3_TeardownBeforeTermination ==
    (Terminated /\ acquired # << >>) =>
        /\ closingDone >= 1
        /\ Range(released) \in { {}, Range(acquired) }

\* C4: when a release() raises during on_closing, an Error record is logged
\* for it, every acquired collaborator is still released and the final
\* "closed" record is still emitted.
C4_BestEffortTeardown ==
    (closingCalls = 1 /\ relRaised >= 1) =>
        /\ ErrorCount(log) >= relRaised
        /\ Range(acquired) \subseteq Range(released)
        /\ MsgCount(log, "closed") = 1

\* C5: a second invocation of on_closing is a no-op: after two or more
\* invocations no collaborator has been released more than once, the GUI has
\* been destroyed at most once and at most one "closed" record exists.
C5_ShutdownIdempotent ==
    closingCalls >= 2 =>
        /\ \A c \in Range(acquired) : Count(released, c) <= 1
        /\ destroyCount <= 1
        /\ MsgCount(log, "closed") <= 1

\* C6: when acquisition k fails, an Error record is logged, teardown runs and
\* releases exactly the k-1 collaborators acquired before it, in reverse
\* order, and the application never reaches mode selection.
C6_FailedAcquisitionTeardown ==
    (Terminated /\ failedAt > 0) =>
        /\ ErrorCount(log) >= 1
        /\ closingCalls >= 1
        /\ released = Reverse(SubSeq(Collaborators, 1, failedAt - 1))
        /\ mode = "unset"
        /\ ~loopEntered

C8_ExitStatusEncodesReason ==
    Terminated =>
        /\ reason = "Normal" => exitCode = 0
        /\ reason = "Fault" => exitCode # 0

C10_RunningOnlyWithValidMode ==
    /\ mode # "unset" => mode \in Modes
    /\ (trainerStarted \/ loopEntered
            \/ pc \in { "trainer", "eventloop", "mainloop" })
          => mode \in Modes \ { "exit" }

C10_Witness ==
    /\ loopEntered
    /\ pc = "mainloop"
    /\ mode = "trainer"

\* the application object was constructed: __init__ ran to its last line
Constructed == MsgCount(log, "initialized") >= 1

\* C11: once starting trainer mode has raised, the application shuts down:
\* the event loop is not entered and teardown has completed at termination.
C11_RunFaultShutsDown ==
    MsgCount(log, "trainer_error") >= 1 =>
        /\ ~loopEntered
        /\ Terminated => closingDone >= 1

\* C12: once loading the configuration has failed, an Error record has been
\* logged, the process has ended with a non-zero exit status, and no
\* collaborator was acquired and no window created.
C12_ConfigFailureAborts ==
    MsgCount(log, "config_failed") >= 1 =>
        /\ log[Len(log)] = Error("config_failed")
        /\ Terminated
        /\ exitCode >= 1
        /\ acquired = << >>
        /\ next = 1
        /\ root = "none"
        /\ closingCalls = 0

C12_Witness ==
    /\ MsgCount(log, "config_failed") = 1
    /\ Terminated
    /\ exitCode = 1

\* C13: when an exception raised during acquisition or during run() has
\* ended the application (reason Fault), an Error record was logged for it.
C13_EveryFaultLoggedAsError ==
    (Terminated /\ reason = "Fault") => ErrorCount(log) >= 1

\* C17: no stack trace is ever written to the terminal.
C17_NoTraceOnConsole ==
    /\ "traceback" \notin Range(printed)
    /\ "tk_callback_traceback" \notin Range(printed)

\* C18: when a constructed application has terminated, exactly one "closed"
\* record was emitted and it is the last record of the log.
C18_OneFinalClosedRecord ==
    (Terminated /\ Constructed) =>
        /\ MsgCount(log, "closed") = 1
        /\ log[Len(log)] = Info("closed")

\* C20: on_closing is invoked at most once, so no collaborator is released
\* more than once and root.destroy() is called at most once.
C20_OnClosingAtMostOnce ==
    /\ closingCalls <= 1
    /\ \A c \in Range(Collaborators) : Count(released, c) <= 1
    /\ destroyCount <= 1

\* ----------------------------------------------------- logging properties
Ids(recs) == [ i \in DOMAIN recs |-> recs[i].id ]

NoDuplicates(ids) ==
    \A i, j \in DOMAIN ids : i # j => ids[i] # ids[j]

\* the records emitted after the first n that have at least level l
Expected(n, l) ==
    Ids(SelectSeq(SubSeq(emitted, n + 1, Len(emitted)),
                  LAMBDA e : LevelNo(e.sev) >= LevelNo(l)))

\* C14: every installed sink has received exactly the records emitted since
\* it was installed whose severity is at least its minimum, once each and in
\* emission order; the terminal has received exactly the records whose
\* severity was at least the console level in force; and the three sinks have
\* the levels configured, DEBUG and ERROR.
C14_SinksReceiveByLevel ==
    /\ \A i \in DOMAIN handlers :
          handlers[i].received = Expected(handlers[i].from, handlers[i].level)
    /\ stderr = Ids(SelectSeq(emitted,
                     LAMBDA e : LevelNo(e.sev) >= LevelNo(e.console)))
    /\ configured =>
          /\ Len(handlers) = 3
          /\ handlers[1].level = config.level
          /\ handlers[2].level = "DEBUG"
          /\ handlers[3].level = "ERROR"

C14_Witness ==
    /\ configured
    /\ Len(handlers) = 3
    /\ Len(handlers[3].received) >= 1
    /\ Len(handlers[2].received) > Len(handlers[3].received)
    /\ Len(handlers[1].received) < Len(handlers[2].received)

\* C15: after a setup_logger(cfg) call the active sinks are those cfg
\* describes: console level, rotation threshold and retention count.
C15_SetupLoggerReplacesSinks ==
    lastCall.op = "setup_logger" =>
        /\ config = lastCall.cfg
        /\ Len(handlers) = 3
        /\ handlers[1].level = lastCall.cfg.level
        /\ \A i \in { 2, 3 } :
              /\ handlers[i].rotation = lastCall.cfg.max_file_size
              /\ handlers[i].retention = lastCall.cfg.backup_count

\* C16: retention deletes only files of the sink that runs it, and each file
\* sink keeps at most backup_count of the files it rotated.
C16_RetentionPerSink ==
    /\ \A d \in deletions : d.owner = d.by
    /\ \A i \in DOMAIN handlers :
          handlers[i].kind # "console" =>
              Cardinality({ f \in files : f.name \in handlers[i].rotated })
                  <= handlers[i].retention

\* C19: after any calls of setup_logger, get_logger and GestLogger exactly
\* three sinks are installed, one of each kind, no record was written twice
\* to the terminal or handed twice to a sink, and setup_logger / get_logger
\* built at most one GestLogger.
C19_ThreeSinksOneInstance ==
    /\ apiCalls >= 1 =>
          /\ Len(handlers) = 3
          /\ handlers[1].kind = "console"
          /\ handlers[2].kind = "all"
          /\ handlers[3].kind = "errors"
    /\ NoDuplicates(stderr)
    /\ \A i \in DOMAIN handlers : NoDuplicates(handlers[i].received)
    /\ constructs <= 1
    /\ instance <=> constructs = 1

C19_Witness ==
    /\ apiCalls >= 2
    /\ instance
    /\ lastCall.op = "GestLogger"
    /\ Len(stderr) >= 2

====
